---- MODULE Spec2Model ----
(***************************************************************************)
(* J2KSwift benchmark scripts: Scripts/compare_performance.py (comparison  *)
(* of the candidate j2k tool with the OpenJPEG reference) and              *)
(* Scripts/profile_encoder.py (encoder profiling with a scalability        *)
(* analysis).                                                              *)
(*                                                                         *)
(* Python floats are modelled as exact rationals <<n, d>> in lowest terms  *)
(* with d > 0.  Optional values are None == <<>> or Some(x) == <<x>>.  A   *)
(* Python exception is the record Raise(name); a returned value is Ok(v).  *)
(***************************************************************************)
EXTENDS Integers, Sequences, FiniteSets, TLC

VARIABLES
    script,             \* which script this invocation runs
    pc,                 \* position of main() in the running script
    cli_exists,         \* whether the j2k CLI binary is found
    sizes,              \* the parsed --sizes list
    runs,               \* args.runs
    fs,                 \* test_images/test_<s>x<s>.pgm : size -> file content
    outfiles,           \* openjpeg/test_<s>x<s>.j2k : size -> byte count
    k,                  \* index of the size loop in progress (1-based)
    trial,              \* loop counter i of the reference adapter
    result,             \* the adapter's local BenchmarkResult being filled
    encode_result,      \* main's locals
    decode_result,
    opj_encode_result,
    opj_decode_result,
    all_results,        \* main's accumulated result list
    test_images,        \* profile_encoder main's list of image paths (sizes)
    doc,                \* the structured result document the j2k tool wrote
    running,            \* external processes started and not yet returned
    log,                \* external invocations returned so far, in order
    err,                \* the exception that left main, or "none"
    writes,             \* size -> writes of its test image by this invocation
    console,            \* what main printed: the comparisons, the report
    written,            \* report files written by this invocation, in order
    arg,                \* argument of the function under unit check
    call,               \* name of the last function applied under unit check
    ret                 \* its return value

vars == <<script, pc, cli_exists, sizes, runs, fs, outfiles, k, trial, result,
          encode_result, decode_result, opj_encode_result, opj_decode_result,
          all_results, test_images, doc, running, log, err, writes, console,
          written, arg, call, ret>>

mainVars == <<script, pc, cli_exists, sizes, runs, fs, outfiles, k, trial,
              result, encode_result, decode_result, opj_encode_result,
              opj_decode_result, all_results, test_images, doc, running, log,
              err, writes, console, written>>

unitVars == <<arg, call, ret>>

-----------------------------------------------------------------------------
(* Bounds of the model *)

MaxSizes == 2       \* longest --sizes list explored
MaxRuns == 2        \* largest --runs explored (the smallest is -1)
MaxTimings == 3     \* longest timing list explored in the unit checks

SizeValues == {1, 2}            \* image side lengths on the command line

-----------------------------------------------------------------------------
(* Optional values and outcomes *)

None == <<>>
Some(x) == <<x>>

RECURSIVE Gcd(_, _)
Gcd(a, b) == IF b = 0 THEN a ELSE Gcd(b, a % b)

Abs(x) == IF x < 0 THEN -x ELSE x

Reduce(n, d, g) == <<n \div g, d \div g>>

\* the rational n/d in lowest terms, d > 0
R(n, d) == Reduce(IF d < 0 THEN -n ELSE n, Abs(d), Gcd(Abs(n), Abs(d)))

Zero == <<0, 1>>
RInt(n) == <<n, 1>>
\* a + b over the least common denominator; g is the gcd of the denominators
AddOver(a, b, g) ==
    R(a[1] * (b[2] \div g) + b[1] * (a[2] \div g), (a[2] \div g) * b[2])
RAdd(a, b) == AddOver(a, b, Gcd(a[2], b[2]))
RNeg(a) == <<-a[1], a[2]>>
RSub(a, b) == RAdd(a, RNeg(b))
Times(x, y) == R(x[1] * y[1], x[2] * y[2])
RMul(a, b) == Times(R(a[1], b[2]), R(b[1], a[2]))
RLt(a, b) == a[1] * b[2] < b[1] * a[2]
RLe(a, b) == a[1] * b[2] <= b[1] * a[2]

Ok(v) == [exc |-> "none", val |-> v]
Raise(e) == [exc |-> e, val |-> Zero]

\* an exception in x propagates, else the computation goes on with x's value
Bind(x, F(_)) == IF x.exc # "none" THEN x ELSE F(x.val)

\* Python's a / b on floats
Div(a, b) ==
    IF b[1] = 0 THEN Raise("ZeroDivisionError")
    ELSE Ok(RMul(a, R(b[2], b[1])))

RECURSIVE RSum(_)
RSum(xs) == IF xs = <<>> THEN Zero ELSE RAdd(Head(xs), RSum(Tail(xs)))

\* floor of the square root of a natural number below 2^31, by bisection:
\* lo * lo <= n < hi * hi throughout
RECURSIVE Bisect(_, _, _)
Bisect(n, lo, hi) ==
    IF hi - lo <= 1 THEN lo
    ELSE IF ((lo + hi) \div 2) * ((lo + hi) \div 2) <= n
         THEN Bisect(n, (lo + hi) \div 2, hi)
         ELSE Bisect(n, lo, (lo + hi) \div 2)

ISqrt(n) == Bisect(n, 0, 46341)

\* math.sqrt on a rational: exact on squares of rationals, else rounded down
\* to a multiple of 1/d
RSqrt(a) == R(ISqrt(a[1] * a[2]), a[2])

\* sorted(data): insertion sort, ascending
RECURSIVE Insert(_, _)
Insert(x, xs) ==
    IF xs = <<>> THEN <<x>>
    ELSE IF RLe(x, Head(xs)) THEN <<x>> \o xs
    ELSE <<Head(xs)>> \o Insert(x, Tail(xs))

RECURSIVE Sorted(_)
Sorted(xs) == IF xs = <<>> THEN <<>> ELSE Insert(Head(xs), Sorted(Tail(xs)))

-----------------------------------------------------------------------------
(* statistics module of the standard library, as used by BenchmarkResult *)

statistics_mean(xs) ==
    IF xs = <<>> THEN Raise("StatisticsError")
    ELSE Ok(RMul(RSum(xs), R(1, Len(xs))))

MedianOfSorted(s, n) ==
    IF n % 2 = 1 THEN s[(n \div 2) + 1]
    ELSE RMul(RAdd(s[n \div 2], s[(n \div 2) + 1]), R(1, 2))

statistics_median(xs) ==
    IF xs = <<>> THEN Raise("StatisticsError")
    ELSE Ok(MedianOfSorted(Sorted(xs), Len(xs)))

Square(x) == RMul(x, x)

SquaredDeviations(xs, m) == [i \in 1..Len(xs) |-> Square(RSub(xs[i], m))]

statistics_stdev(xs) ==
    IF Len(xs) < 2 THEN Raise("StatisticsError")
    ELSE Ok(RSqrt(RMul(RSum(SquaredDeviations(xs, statistics_mean(xs).val)),
                       R(1, Len(xs) - 1))))

Lesser(a, b) == IF RLt(b, a) THEN b ELSE a
Greater(a, b) == IF RLt(a, b) THEN b ELSE a

RECURSIVE SeqMin(_)
SeqMin(xs) == IF Len(xs) = 1 THEN xs[1] ELSE Lesser(xs[1], SeqMin(Tail(xs)))

RECURSIVE SeqMax(_)
SeqMax(xs) == IF Len(xs) = 1 THEN xs[1] ELSE Greater(xs[1], SeqMax(Tail(xs)))

builtin_min(xs) == IF xs = <<>> THEN Raise("ValueError") ELSE Ok(SeqMin(xs))
builtin_max(xs) == IF xs = <<>> THEN Raise("ValueError") ELSE Ok(SeqMax(xs))

-----------------------------------------------------------------------------
(* class BenchmarkResult *)

BenchmarkResult(implementation, image_size, operation) ==
    [implementation |-> implementation, image_size |-> image_size,
     operation |-> operation, times |-> <<>>, compressed_size |-> None]

\* average without the emptiness test
average_unguarded(self) == statistics_mean(self.times)

average(self) ==
    IF self.times # <<>> THEN statistics_mean(self.times) ELSE Ok(Zero)

median(self) ==
    IF self.times # <<>> THEN statistics_median(self.times) ELSE Ok(Zero)

std_dev(self) ==
    IF Len(self.times) > 1 THEN statistics_stdev(self.times) ELSE Ok(Zero)

min_time(self) ==
    IF self.times # <<>> THEN builtin_min(self.times) ELSE Ok(Zero)

max_time(self) ==
    IF self.times # <<>> THEN builtin_max(self.times) ELSE Ok(Zero)

\* megapixels / self.average
megapixels_per_second(self, avg) ==
    Div(R(self.image_size * self.image_size, 1000000), avg)

throughput(self) ==
    IF RLt(Zero, average(self).val)
    THEN megapixels_per_second(self, average(self).val)
    ELSE Ok(Zero)

-----------------------------------------------------------------------------
(* The environment: command lines, files and external tools *)

RECURSIVE SeqsUpTo(_, _)
SeqsUpTo(S, n) ==
    IF n = 0 THEN {<<>>}
    ELSE LET T == SeqsUpTo(S, n - 1)
         IN  T \cup {Append(t, x) : t \in {u \in T : Len(u) = n - 1}, x \in S}

SizeLists == SeqsUpTo(SizeValues, MaxSizes) \ {<<>>}

Absent == "absent"
FileContents == {Absent, "existing"}

\* wall-clock seconds one reference trial can take (perf_counter difference)
ElapsedValues == {R(1, 100)}

\* per-run milliseconds the j2k tool can report
DocMs == {0, 20}

\* byte counts opj_compress can leave in its output artifact: the encoder is
\* deterministic, so the count depends on the input image alone
ArtifactBytes(image) == {IF image = "existing" THEN 3 ELSE 5}

Repeat(v, n) == [i \in 1..n |-> v]

MissingDoc == [kind |-> "missing", image |-> None, encode |-> None,
               decode |-> None]
MalformedDoc == [MissingDoc EXCEPT !.kind = "malformed"]

EncodeSection(ms, n, csize) ==
    [runs |-> Some(Repeat(ms, n)), compressed_size |-> csize,
     average_ms |-> Some(RInt(ms)), throughput_mpps |-> Some(RInt(1))]

\* encode sections of n runs: all runs take 0 ms and no size is reported, or
\* all take 20 ms and 5 bytes are reported
EncodeSections(n) == {EncodeSection(0, n, None), EncodeSection(20, n, Some(5))}

\* the documents the j2k benchmark subcommand can leave at the -o path when
\* asked for n runs over an image of side s
WellFormedDocs(s, n) ==
    {[kind |-> "json", image |-> Some([width |-> Some(s)]),
      encode |-> Some(e), decode |-> d] :
        e \in EncodeSections(n),
        d \in {None} \cup {Some([runs |-> Some(Repeat(m, n))]) : m \in DocMs}}

BrokenDocs(s, n) ==
    {MissingDoc, MalformedDoc,
     [kind |-> "json", image |-> None,
      encode |-> Some(EncodeSection(20, n, None)), decode |-> None],
     [kind |-> "json", image |-> Some([width |-> Some(s)]), encode |-> None,
      decode |-> None],
     [kind |-> "json", image |-> Some([width |-> Some(s)]),
      encode |-> Some([EncodeSection(20, n, None) EXCEPT !.runs = None]),
      decode |-> None]}

Docs(s, n) == WellFormedDocs(s, n) \cup BrokenDocs(s, n)

ExitCodes == {0, 1}

Invocation(tool, idx, flags) == [tool |-> tool, k |-> idx, flags |-> flags]
Returned(inv, rc) ==
    [tool |-> inv.tool, k |-> inv.k, flags |-> inv.flags, rc |-> rc]

-----------------------------------------------------------------------------
(* compare_performance.py: run_j2kswift_benchmark, lines 125-142 *)

\* t / 1000.0
ms_to_seconds(t) == R(t, 1000)

MapSeq(xs, Op(_)) == [i \in 1..Len(xs) |-> Op(xs[i])]

\* json.load of the document and the construction of the two results
parse_j2kswift(d) ==
    IF d.kind = "missing" THEN Raise("FileNotFoundError")
    ELSE IF d.kind = "malformed" THEN Raise("JSONDecodeError")
    ELSE IF d.image = None THEN Raise("KeyError")
    ELSE IF d.image[1].width = None THEN Raise("KeyError")
    ELSE IF d.encode = None THEN Raise("KeyError")
    ELSE IF d.encode[1].runs = None THEN Raise("KeyError")
    ELSE IF d.decode # None /\ d.decode[1].runs = None THEN Raise("KeyError")
    ELSE
      LET image_size == d.image[1].width[1]
          enc == [BenchmarkResult("J2KSwift", image_size, "encode") EXCEPT
                    !.times = MapSeq(d.encode[1].runs[1], ms_to_seconds),
                    !.compressed_size = d.encode[1].compressed_size]
          dec == IF d.decode # None
                 THEN Some([BenchmarkResult("J2KSwift", image_size, "decode")
                            EXCEPT !.times =
                              MapSeq(d.decode[1].runs[1], ms_to_seconds)])
                 ELSE None
      IN  Ok([encode |-> enc, decode |-> dec])

-----------------------------------------------------------------------------
(* compare_performance.py: generate_markdown_report *)

OfOperation(results, op) == SelectSeq(results, LAMBDA r : r.operation = op)

\* next((r for r in size_results if r.implementation == impl), None)
FirstOf(results, size, impl) ==
    LET idx == {i \in 1..Len(results) :
                  /\ results[i].image_size = size
                  /\ results[i].implementation = impl}
    IN  IF idx = {} THEN None
        ELSE Some(results[CHOOSE i \in idx : \A j \in idx : i <= j])

\* sorted(set(...)) on integers
RECURSIVE SortedSet(_)
SortedSet(S) ==
    IF S = {} THEN <<>>
    ELSE LET m == CHOOSE x \in S : \A y \in S : x <= y
         IN  <<m>> \o SortedSet(S \ {m})

Percent(q) == Ok(RMul(q, RInt(100)))

\* openjpeg.average / j2kswift.average * 100
speed_ratio(openjpeg, j2kswift) ==
    Bind(Div(average(openjpeg).val, average(j2kswift).val), Percent)

SomeOk(v) == Ok(Some(v))

\* the "vs OpenJPEG" cell of a J2KSwift row (lines 171 and 193):
\* None is the text N/A, Some(p) the percentage p
relative_cell(openjpeg, j2kswift) ==
    IF openjpeg # None
    THEN Bind(speed_ratio(openjpeg[1], j2kswift[1]), SomeOk)
    ELSE Ok(None)

Row(r, rel) ==
    [image_size |-> r.image_size, implementation |-> r.implementation,
     operation |-> r.operation, average |-> average(r).val,
     compressed_size |-> r.compressed_size, relative |-> rel]

RowsOf(openjpeg, j2kswift, rel) ==
    (IF j2kswift # None THEN <<Row(j2kswift[1], rel)>> ELSE <<>>)
    \o (IF openjpeg # None THEN <<Row(openjpeg[1], Some(RInt(100)))>>
        ELSE <<>>)

PairRows(openjpeg, j2kswift) ==
    Bind(IF j2kswift # None THEN relative_cell(openjpeg, j2kswift)
         ELSE Ok(None),
         LAMBDA rel : Ok(RowsOf(openjpeg, j2kswift, rel)))

\* the rows one size contributes to a table (lines 166-177, 188-197)
size_rows(op_results, size) ==
    PairRows(FirstOf(op_results, size, "OpenJPEG"),
             FirstOf(op_results, size, "J2KSwift"))

RECURSIVE table_rows(_, _)
table_rows(op_results, size_seq) ==
    IF size_seq = <<>> THEN Ok(<<>>)
    ELSE Bind(size_rows(op_results, Head(size_seq)),
              LAMBDA h : Bind(table_rows(op_results, Tail(size_seq)),
                              LAMBDA t : Ok(h \o t)))

AveragesOf(results, impl) ==
    MapSeq(SelectSeq(results, LAMBDA r : r.implementation = impl),
           LAMBDA r : average(r).val)

\* (opj_avg / j2k_avg) * 100 if j2k_avg > 0 else 0   (lines 208, 217)
guarded_ratio(opj_avg, j2k_avg) ==
    IF RLt(Zero, j2k_avg) THEN RMul(Div(opj_avg, j2k_avg).val, RInt(100))
    ELSE Zero

\* lines 210-217 and 224-229: None is the "decoder currently has errors" line
decode_summary(j2k_decode, opj_decode) ==
    IF j2k_decode = <<>> THEN None
    ELSE IF opj_decode = <<>> THEN Some(Zero)
    ELSE Some(guarded_ratio(statistics_mean(opj_decode).val,
                            statistics_mean(j2k_decode).val))

\* the Summary section (lines 205-230)
summary_section(encode_results, decode_results) ==
    Bind(statistics_mean(AveragesOf(encode_results, "J2KSwift")),
         LAMBDA j2k_encode_avg :
           Bind(statistics_mean(AveragesOf(encode_results, "OpenJPEG")),
                LAMBDA opj_encode_avg :
                  Ok([encode_ratio |->
                          guarded_ratio(opj_encode_avg, j2k_encode_avg),
                      decode |->
                          decode_summary(
                              AveragesOf(decode_results, "J2KSwift"),
                              AveragesOf(decode_results, "OpenJPEG"))])))

SizesOf(results) ==
    SortedSet({results[i].image_size : i \in 1..Len(results)})

markdown_sections(encode_results, decode_results, size_seq) ==
    Bind(table_rows(encode_results, size_seq), LAMBDA enc :
      Bind(table_rows(decode_results, size_seq), LAMBDA dec :
        Bind(summary_section(encode_results, decode_results), LAMBDA sm :
          Ok([encode_rows |-> enc, decode_rows |-> dec, summary |-> sm]))))

generate_markdown_report(results) ==
    markdown_sections(OfOperation(results, "encode"),
                      OfOperation(results, "decode"),
                      SizesOf(OfOperation(results, "encode")))

DecodeRatio(opj_dec, dec) ==
    IF dec # None THEN Bind(speed_ratio(opj_dec, dec[1]), SomeOk)
    ELSE Ok(None)

\* the per-size comparison main prints (lines 347-354)
console_comparison(opj_enc, enc, opj_dec, dec) ==
    Bind(speed_ratio(opj_enc, enc), LAMBDA e :
      Bind(DecodeRatio(opj_dec, dec), LAMBDA d :
        Ok([encode_ratio |-> e, decode_ratio |-> d])))

-----------------------------------------------------------------------------
(* compare_performance.py: generate_csv_report.  A text is a sequence of    *)
(* tokens: the characters of the numbers, the separators "," and "\n", and  *)
(* the words of the header and of the implementation and operation names    *)

Digits == <<"0", "1", "2", "3", "4", "5", "6", "7", "8", "9">>

DigitChar(d) == Digits[d + 1]

\* str(n) of a natural number
RECURSIVE DecimalOf(_)
DecimalOf(n) ==
    IF n < 10 THEN <<DigitChar(n)>>
    ELSE DecimalOf(n \div 10) \o <<DigitChar(n % 10)>>

\* str(n) of an int
str_int(n) == IF n < 0 THEN <<"-">> \o DecimalOf(-n) ELSE DecimalOf(n)

\* the integer nearest to n/d, d > 0, a tie going to the even one
NearestEven(fl, twice_rest, d) ==
    IF twice_rest < d THEN fl
    ELSE IF twice_rest > d THEN fl + 1
    ELSE IF fl % 2 = 0 THEN fl ELSE fl + 1

\* of a quotient <<n, d>>, d > 0, in lowest terms or not
RoundHalfEven(q) ==
    NearestEven(q[1] \div q[2], 2 * (q[1] % q[2]), q[2])

ThreeDigits(m) ==
    <<DigitChar(m \div 100), DigitChar((m \div 10) % 10), DigitChar(m % 10)>>

\* the text of t thousandths
FixedText(t) ==
    (IF t < 0 THEN <<"-">> ELSE <<>>)
    \o DecimalOf(Abs(t) \div 1000) \o <<".">> \o ThreeDigits(Abs(t) % 1000)

\* f"{x:.3f}"
format_3f(x) == FixedText(RoundHalfEven(<<x[1] * 1000, x[2]>>))

\* f"{x*1000:.3f}"
format_ms(x) == FixedText(RoundHalfEven(<<x[1] * 1000 * 1000, x[2]>>))

\* line 239
csv_header ==
    <<"ImageSize", ",", "Implementation", ",", "Operation", ",",
      "AvgTime(ms)", ",", "MedianTime(ms)", ",", "MinTime(ms)", ",",
      "MaxTime(ms)", ",", "StdDev(ms)", ",", "Throughput(MP/s)", ",",
      "CompressedSize(B)">>

\* line 242: r.compressed_size if r.compressed_size else ''
csv_compressed_size(r) ==
    IF r.compressed_size # None /\ r.compressed_size[1] # 0
    THEN str_int(r.compressed_size[1])
    ELSE <<>>

\* line 243: the ten fields with a comma between them
csv_line(r) ==
    str_int(r.image_size) \o <<",", r.implementation, ",", r.operation, ",">>
    \o format_ms(average(r).val) \o <<",">>
    \o format_ms(median(r).val) \o <<",">>
    \o format_ms(min_time(r).val) \o <<",">>
    \o format_ms(max_time(r).val) \o <<",">>
    \o format_ms(std_dev(r).val) \o <<",">>
    \o format_3f(throughput(r).val) \o <<",">>
    \o csv_compressed_size(r)

\* lines 241-245: the header and the lines of the first n results, with a
\* newline between them
RECURSIVE csv_lines(_, _)
csv_lines(results, n) ==
    IF n = 0 THEN csv_header
    ELSE csv_lines(results, n - 1) \o <<"\n">> \o csv_line(results[n])

\* lines 236-245: the text written to performance_data.csv
generate_csv_report(results) == csv_lines(results, Len(results))

-----------------------------------------------------------------------------
(* compare_performance.py: main and the adapters it calls, one action per   *)
(* step; an external process is a start step and a return step              *)

\* test_images/test_<size>x<size>.pgm and its siblings
TestPath(dir, size, ext) == [dir |-> dir, w |-> size, h |-> size, ext |-> ext]

\* int(input_file.stem.split('_')[1].split('x')[0])
size_of_stem(path) == path.w

CurrentSize == sizes[k]

\* output_file.write_text(...): the file and what it holds
File(name, content) == [name |-> name, content |-> content]

Raised(e) == /\ pc' = "raised"
             /\ err' = e

\* a retry that does not look at the exit code
combined_failed_always(rc) == TRUE

\* line 114: the combined invocation failed
combined_failed(rc) == rc # 0

\* line 122: the encode-only retry failed
retry_failed(rc) == rc # 0

\* subprocess.run without check=True
called_process_error_ignored(rc) == FALSE

\* check=True of subprocess.run (lines 70, 95): CalledProcessError
called_process_error(rc) == rc # 0

\* lines 257-283
CompareSetup ==
    /\ script = "compare" /\ pc = "start"
    /\ IF cli_exists
       THEN pc' = "gen" /\ err' = err
       ELSE pc' = "exit1" /\ err' = "SystemExit"
    /\ k' = 1
    /\ UNCHANGED <<script, cli_exists, sizes, runs, fs, outfiles, trial,
                   result, encode_result, decode_result, opj_encode_result,
                   opj_decode_result, all_results, test_images, doc, running,
                   log, writes, console, written>>
    /\ UNCHANGED unitVars

\* the image loop without the existence test of line 299
CompareGenerateAlways ==
    /\ script = "compare" /\ pc = "gen"
    /\ IF k <= Len(sizes)
       THEN /\ fs' = [fs EXCEPT ![sizes[k]] = "random"]
            /\ writes' = [writes EXCEPT ![sizes[k]] = @ + 1]
            /\ k' = k + 1
            /\ pc' = pc
       ELSE /\ k' = 1
            /\ pc' = "bench"
            /\ UNCHANGED <<fs, writes>>
    /\ UNCHANGED <<script, cli_exists, sizes, runs, outfiles, trial, result,
                   encode_result, decode_result, opj_encode_result,
                   opj_decode_result, all_results, test_images, doc, running,
                   log, err, console, written>>
    /\ UNCHANGED unitVars

\* lines 297-308: one iteration of the image loop, or its end
CompareGenerate ==
    /\ script = "compare" /\ pc = "gen"
    /\ IF k <= Len(sizes)
       THEN /\ IF fs[sizes[k]] = Absent
               THEN /\ fs' = [fs EXCEPT ![sizes[k]] = "random"]
                    /\ writes' = [writes EXCEPT ![sizes[k]] = @ + 1]
               ELSE UNCHANGED <<fs, writes>>
            /\ k' = k + 1
            /\ pc' = pc
       ELSE /\ k' = 1
            /\ pc' = "bench"
            /\ UNCHANGED <<fs, writes>>
    /\ UNCHANGED <<script, cli_exists, sizes, runs, outfiles, trial, result,
                   encode_result, decode_result, opj_encode_result,
                   opj_decode_result, all_results, test_images, doc, running,
                   log, err, console, written>>
    /\ UNCHANGED unitVars

\* lines 106-111: the combined invocation starts
J2kStart ==
    /\ script = "compare" /\ pc = "bench" /\ k <= Len(sizes)
    /\ running' = running \cup {Invocation("j2k", k, "benchmark")}
    /\ pc' = "j2k_wait"
    /\ UNCHANGED <<script, cli_exists, sizes, runs, fs, outfiles, k, trial,
                   result, encode_result, decode_result, opj_encode_result,
                   opj_decode_result, all_results, test_images, doc, log, err,
                   writes, console, written>>
    /\ UNCHANGED unitVars

\* lines 106-116: subprocess.run returns
J2kReturn ==
    /\ script = "compare" /\ pc = "j2k_wait"
    /\ \E rc \in ExitCodes :
         /\ log' = Append(log, Returned(Invocation("j2k", k, "benchmark"), rc))
         /\ IF combined_failed(rc)
            THEN pc' = "j2k_retry" /\ doc' = doc
            ELSE pc' = "j2k_parse" /\ doc' \in Docs(CurrentSize, runs)
    /\ running' = running \ {Invocation("j2k", k, "benchmark")}
    /\ UNCHANGED <<script, cli_exists, sizes, runs, fs, outfiles, k, trial,
                   result, encode_result, decode_result, opj_encode_result,
                   opj_decode_result, all_results, test_images, err, writes,
                   console, written>>
    /\ UNCHANGED unitVars

\* lines 117-121: the encode-only retry starts
J2kRetryStart ==
    /\ script = "compare" /\ pc = "j2k_retry"
    /\ running' = running \cup {Invocation("j2k", k, "encode-only")}
    /\ pc' = "j2k_retry_wait"
    /\ UNCHANGED <<script, cli_exists, sizes, runs, fs, outfiles, k, trial,
                   result, encode_result, decode_result, opj_encode_result,
                   opj_decode_result, all_results, test_images, doc, log, err,
                   writes, console, written>>
    /\ UNCHANGED unitVars

\* lines 117-123: the retry returns
J2kRetryReturn ==
    /\ script = "compare" /\ pc = "j2k_retry_wait"
    /\ \E rc \in ExitCodes :
         /\ log' = Append(log,
                          Returned(Invocation("j2k", k, "encode-only"), rc))
         /\ IF retry_failed(rc)
            THEN Raised("RuntimeError") /\ doc' = doc
            ELSE /\ pc' = "j2k_parse"
                 /\ err' = err
                 /\ doc' \in {d \in Docs(CurrentSize, runs) : d.decode = None}
    /\ running' = running \ {Invocation("j2k", k, "encode-only")}
    /\ UNCHANGED <<script, cli_exists, sizes, runs, fs, outfiles, k, trial,
                   result, encode_result, decode_result, opj_encode_result,
                   opj_decode_result, all_results, test_images, writes,
                   console, written>>
    /\ UNCHANGED unitVars

\* lines 125-142: the document is read and the pair returned
J2kParse ==
    /\ script = "compare" /\ pc = "j2k_parse"
    /\ LET p == parse_j2kswift(doc)
       IN  IF p.exc # "none"
           THEN Raised(p.exc) /\ UNCHANGED <<encode_result, decode_result>>
           ELSE /\ encode_result' = Some(p.val.encode)
                /\ decode_result' = p.val.decode
                /\ pc' = "j2k_append"
                /\ err' = err
    /\ UNCHANGED <<script, cli_exists, sizes, runs, fs, outfiles, k, trial,
                   result, opj_encode_result, opj_decode_result, all_results,
                   test_images, doc, running, log, writes, console, written>>
    /\ UNCHANGED unitVars

\* lines 325-337 and 62: main records the pair and enters the reference
\* encode adapter
MainAppendJ2k ==
    /\ script = "compare" /\ pc = "j2k_append"
    /\ all_results' = all_results \o encode_result
                      \o (IF decode_result # None THEN decode_result ELSE <<>>)
    /\ result' = Some(BenchmarkResult("OpenJPEG",
                        size_of_stem(TestPath("test_images", CurrentSize, "pgm")),
                        "encode"))
    /\ trial' = 0
    /\ pc' = "opj_encode"
    /\ UNCHANGED <<script, cli_exists, sizes, runs, fs, outfiles, k,
                   encode_result, decode_result, opj_encode_result,
                   opj_decode_result, test_images, doc, running, log, err,
                   writes, console, written>>
    /\ UNCHANGED unitVars

\* a trial started without waiting for the process (Popen for run)
OpjEncodeStartNoWait ==
    /\ script = "compare" /\ pc = "opj_encode" /\ trial < runs
    /\ running' = running \cup {Invocation("opj_compress", k, trial)}
    /\ \E elapsed \in ElapsedValues :
         result' = Some([result[1] EXCEPT !.times = Append(@, elapsed)])
    /\ trial' = trial + 1
    /\ UNCHANGED <<script, pc, cli_exists, sizes, runs, fs, outfiles, k,
                   encode_result, decode_result, opj_encode_result,
                   opj_decode_result, all_results, test_images, doc, log, err,
                   writes, console, written>>
    /\ UNCHANGED unitVars

\* lines 64-71: a trial of opj_compress starts
OpjEncodeStart ==
    /\ script = "compare" /\ pc = "opj_encode" /\ trial < runs
    /\ running' = running \cup {Invocation("opj_compress", k, trial)}
    /\ pc' = "opj_encode_wait"
    /\ UNCHANGED <<script, cli_exists, sizes, runs, fs, outfiles, k, trial,
                   result, encode_result, decode_result, opj_encode_result,
                   opj_decode_result, all_results, test_images, doc, log, err,
                   writes, console, written>>
    /\ UNCHANGED unitVars

\* the duration assigned as the whole list (times = [elapsed] for append)
OpjEncodeReturnOverwriting ==
    /\ script = "compare" /\ pc = "opj_encode_wait"
    /\ \E rc \in ExitCodes, elapsed \in ElapsedValues,
          bytes \in ArtifactBytes(fs[CurrentSize]) :
         /\ log' = Append(log,
                          Returned(Invocation("opj_compress", k, trial), rc))
         /\ IF called_process_error(rc)
            THEN /\ Raised("CalledProcessError")
                 /\ UNCHANGED <<result, trial, outfiles>>
            ELSE /\ result' = Some([result[1] EXCEPT
                                      !.times = <<elapsed>>])
                 /\ outfiles' = [outfiles EXCEPT ![CurrentSize] = Some(bytes)]
                 /\ trial' = trial + 1
                 /\ pc' = "opj_encode"
                 /\ err' = err
    /\ running' = running \ {Invocation("opj_compress", k, trial)}
    /\ UNCHANGED <<script, cli_exists, sizes, runs, fs, k, encode_result,
                   decode_result, opj_encode_result, opj_decode_result,
                   all_results, test_images, doc, writes, console, written>>
    /\ UNCHANGED unitVars

\* lines 66-73: the trial returns; its duration is appended
OpjEncodeReturn ==
    /\ script = "compare" /\ pc = "opj_encode_wait"
    /\ \E rc \in ExitCodes, elapsed \in ElapsedValues,
          bytes \in ArtifactBytes(fs[CurrentSize]) :
         /\ log' = Append(log,
                          Returned(Invocation("opj_compress", k, trial), rc))
         /\ IF called_process_error(rc)
            THEN /\ Raised("CalledProcessError")
                 /\ UNCHANGED <<result, trial, outfiles>>
            ELSE /\ result' = Some([result[1] EXCEPT
                                      !.times = Append(@, elapsed)])
                 /\ outfiles' = [outfiles EXCEPT ![CurrentSize] = Some(bytes)]
                 /\ trial' = trial + 1
                 /\ pc' = "opj_encode"
                 /\ err' = err
    /\ running' = running \ {Invocation("opj_compress", k, trial)}
    /\ UNCHANGED <<script, cli_exists, sizes, runs, fs, k, encode_result,
                   decode_result, opj_encode_result, opj_decode_result,
                   all_results, test_images, doc, writes, console, written>>
    /\ UNCHANGED unitVars

\* lines 75-78, 337-343, 84-87: the encode adapter returns, main records its
\* result and enters the decode adapter
OpjEncodeDone ==
    /\ script = "compare" /\ pc = "opj_encode" /\ trial >= runs
    /\ LET r == [result[1] EXCEPT !.compressed_size = outfiles[CurrentSize]]
       IN  /\ opj_encode_result' = Some(r)
           /\ all_results' = Append(all_results, r)
    /\ result' = Some(BenchmarkResult("OpenJPEG",
                        size_of_stem(TestPath("openjpeg", CurrentSize, "j2k")),
                        "decode"))
    /\ trial' = 0
    /\ pc' = "opj_decode"
    /\ UNCHANGED <<script, cli_exists, sizes, runs, fs, outfiles, k,
                   encode_result, decode_result, opj_decode_result,
                   test_images, doc, running, log, err, writes, console,
                   written>>
    /\ UNCHANGED unitVars

\* lines 89-96: a trial of opj_decompress starts
OpjDecodeStart ==
    /\ script = "compare" /\ pc = "opj_decode" /\ trial < runs
    /\ running' = running \cup {Invocation("opj_decompress", k, trial)}
    /\ pc' = "opj_decode_wait"
    /\ UNCHANGED <<script, cli_exists, sizes, runs, fs, outfiles, k, trial,
                   result, encode_result, decode_result, opj_encode_result,
                   opj_decode_result, all_results, test_images, doc, log, err,
                   writes, console, written>>
    /\ UNCHANGED unitVars

\* lines 91-98: the trial returns; its duration is appended
OpjDecodeReturn ==
    /\ script = "compare" /\ pc = "opj_decode_wait"
    /\ \E rc \in ExitCodes, elapsed \in ElapsedValues :
         /\ log' = Append(log,
                          Returned(Invocation("opj_decompress", k, trial), rc))
         /\ IF called_process_error(rc)
            THEN /\ Raised("CalledProcessError")
                 /\ UNCHANGED <<result, trial>>
            ELSE /\ result' = Some([result[1] EXCEPT
                                      !.times = Append(@, elapsed)])
                 /\ trial' = trial + 1
                 /\ pc' = "opj_decode"
                 /\ err' = err
    /\ running' = running \ {Invocation("opj_decompress", k, trial)}
    /\ UNCHANGED <<script, cli_exists, sizes, runs, fs, outfiles, k,
                   encode_result, decode_result, opj_encode_result,
                   opj_decode_result, all_results, test_images, doc, writes,
                   console, written>>
    /\ UNCHANGED unitVars

\* lines 100, 343-345: the decode adapter returns and main records its result
OpjDecodeDone ==
    /\ script = "compare" /\ pc = "opj_decode" /\ trial >= runs
    /\ opj_decode_result' = result
    /\ all_results' = Append(all_results, result[1])
    /\ result' = None
    /\ pc' = "compare"
    /\ UNCHANGED <<script, cli_exists, sizes, runs, fs, outfiles, k, trial,
                   encode_result, decode_result, opj_encode_result,
                   test_images, doc, running, log, err, writes, console,
                   written>>
    /\ UNCHANGED unitVars

\* lines 347-355: the per-size comparison, then the next size
Compare ==
    /\ script = "compare" /\ pc = "compare"
    /\ LET c == console_comparison(opj_encode_result[1], encode_result[1],
                                   opj_decode_result[1], decode_result)
       IN  IF c.exc # "none"
           THEN Raised(c.exc) /\ UNCHANGED <<console, k>>
           ELSE /\ console' = Append(console, c.val)
                /\ k' = k + 1
                /\ pc' = "bench"
                /\ err' = err
    /\ UNCHANGED <<script, cli_exists, sizes, runs, fs, outfiles, trial,
                   result, encode_result, decode_result, opj_encode_result,
                   opj_decode_result, all_results, test_images, doc, running,
                   log, writes, written>>
    /\ UNCHANGED unitVars

\* lines 357-360: the size loop is over; the markdown report
GenerateMarkdown ==
    /\ script = "compare" /\ pc = "bench" /\ k > Len(sizes)
    /\ LET m == generate_markdown_report(all_results)
       IN  IF m.exc # "none"
           THEN Raised(m.exc) /\ written' = written
           ELSE /\ written' = Append(written,
                                  File("performance_comparison.md", m.val))
                /\ pc' = "report_csv"
                /\ err' = err
    /\ UNCHANGED <<script, cli_exists, sizes, runs, fs, outfiles, k, trial,
                   result, encode_result, decode_result, opj_encode_result,
                   opj_decode_result, all_results, test_images, doc, running,
                   log, writes, console>>
    /\ UNCHANGED unitVars

\* lines 362-366: the CSV report, and main returns
GenerateCsv ==
    /\ script = "compare" /\ pc = "report_csv"
    /\ written' = Append(written, File("performance_data.csv",
                                       generate_csv_report(all_results)))
    /\ pc' = "done"
    /\ UNCHANGED <<script, cli_exists, sizes, runs, fs, outfiles, k, trial,
                   result, encode_result, decode_result, opj_encode_result,
                   opj_decode_result, all_results, test_images, doc, running,
                   log, err, writes, console>>
    /\ UNCHANGED unitVars

NextCompare ==
    \/ CompareSetup \/ CompareGenerate
    \/ J2kStart \/ J2kReturn \/ J2kRetryStart \/ J2kRetryReturn \/ J2kParse
    \/ MainAppendJ2k
    \/ OpjEncodeStart \/ OpjEncodeReturn \/ OpjEncodeDone
    \/ OpjDecodeStart \/ OpjDecodeReturn \/ OpjDecodeDone
    \/ Compare \/ GenerateMarkdown \/ GenerateCsv

-----------------------------------------------------------------------------
(* profile_encoder.py: analyze_results and generate_report *)

EmptyDict == [key \in {} |-> 0]

\* dict.get(key, default)
Get(d, key, default) == IF key \in DOMAIN d THEN d[key] ELSE default

\* lines 103-128; the document's absent keys are None
OrElse(opt, default) == IF opt = None THEN default ELSE opt[1]

compression_ratio_of(pixels, compressed_size) ==
    IF compressed_size > 0 THEN R(pixels, compressed_size) ELSE Zero

AnalysisOf(image_size, encode_stats) ==
    [image_size |-> image_size,
     pixels |-> image_size * image_size,
     avg_time_ms |-> OrElse(encode_stats.average_ms, Zero),
     throughput_mpps |-> OrElse(encode_stats.throughput_mpps, Zero),
     compressed_size_bytes |-> OrElse(encode_stats.compressed_size, 0),
     compression_ratio |->
         compression_ratio_of(image_size * image_size,
                              OrElse(encode_stats.compressed_size, 0)),
     times_ms |-> encode_stats.runs[1]]

analyze_results(results, image_size) ==
    IF results.encode = None THEN EmptyDict
    ELSE IF OrElse(results.encode[1].runs, <<>>) = <<>> THEN EmptyDict
    ELSE AnalysisOf(image_size, results.encode[1])

\* the bands with the edge 1.1 put in the linear band (<= for <)
classify_edge_in_linear(scaling_factor) ==
    IF RLt(scaling_factor, R(9, 10)) THEN "Super-linear scaling"
    ELSE IF RLe(scaling_factor, R(11, 10)) THEN "Linear scaling"
    ELSE IF RLt(scaling_factor, R(3, 2)) THEN "Sub-linear scaling"
    ELSE "Poor scaling"

\* lines 180-187, the float literals 0.9, 1.1 and 1.5 taken as exact
classify(scaling_factor) ==
    IF RLt(scaling_factor, R(9, 10)) THEN "Super-linear scaling"
    ELSE IF RLt(scaling_factor, R(11, 10)) THEN "Linear scaling"
    ELSE IF RLt(scaling_factor, R(3, 2)) THEN "Sub-linear scaling"
    ELSE "Poor scaling"

\* line 165: the test that lets the scalability analysis run
analysis_runs(results) == Len(results) >= 2

\* lines 166-167: the two results the analysis compares
first_result(results) == results[1]
last_result(results) == results[Len(results)]

ScalabilityRecord(first, last, pixel_ratio, time_ratio, scaling_factor) ==
    [first |-> first.image_size, last |-> last.image_size,
     pixel_ratio |-> pixel_ratio, time_ratio |-> time_ratio,
     scaling_factor |-> scaling_factor, band |-> classify(scaling_factor)]

\* lines 169-187 for the two results compared
scalability_of(first, last) ==
    IF "pixels" \notin DOMAIN last \/ "pixels" \notin DOMAIN first
    THEN Raise("KeyError")
    ELSE Bind(Div(RInt(last.pixels), RInt(first.pixels)),
           LAMBDA pixel_ratio :
             Bind(Div(last.avg_time_ms, first.avg_time_ms),
               LAMBDA time_ratio :
                 Bind(Div(time_ratio, pixel_ratio),
                   LAMBDA scaling_factor :
                     Ok(Some(ScalabilityRecord(first, last, pixel_ratio,
                                               time_ratio, scaling_factor))))))

\* lines 163-188: None when the analysis is skipped
scalability_analysis(results) ==
    IF results # <<>> /\ analysis_runs(results)
    THEN scalability_of(first_result(results), last_result(results))
    ELSE Ok(None)

Target(performance_ratio) ==
    IF RLe(RInt(80), performance_ratio) THEN "Target met"
    ELSE IF RLe(RInt(50), performance_ratio) THEN "Approaching target"
    ELSE "Below target"

MeanOf(results, key) ==
    Div(RSum(MapSeq(results, LAMBDA r : Get(r, key, Zero))),
        RInt(Len(results)))

\* lines 190-214: Key Metrics and the comparison with the target
key_metrics(results) ==
    Bind(MeanOf(results, "throughput_mpps"), LAMBDA avg_throughput :
      Bind(MeanOf(results, "compression_ratio"), LAMBDA avg_ratio :
        Ok([avg_throughput |-> avg_throughput,
            avg_ratio |-> avg_ratio,
            target |-> Target(RMul(Div(avg_throughput, RInt(4)).val,
                                   RInt(100)))])))

SummaryRow(r) ==
    [image_size |-> Get(r, "image_size", 0),
     avg_time_ms |-> Get(r, "avg_time_ms", Zero),
     throughput_mpps |-> Get(r, "throughput_mpps", Zero),
     compressed_kb |-> R(Get(r, "compressed_size_bytes", 0), 1024),
     ratio |-> Get(r, "compression_ratio", Zero)]

\* lines 131-251
generate_report(results) ==
    Bind(scalability_analysis(results), LAMBDA scal :
      Bind(key_metrics(results), LAMBDA km :
        Ok([summary |-> MapSeq(results, SummaryRow), scalability |-> scal,
            key_metrics |-> km])))

-----------------------------------------------------------------------------
(* profile_encoder.py: main, one action per step *)

Exit1 == /\ pc' = "exit1"
         /\ err' = "SystemExit"

\* lines 296-320: directories, the build of the CLI tool (skipped, succeeded
\* or failed) and the look-up of its binary
ProfileSetup ==
    /\ script = "profile" /\ pc = "start"
    /\ \E build_ok \in BOOLEAN :
         IF build_ok /\ cli_exists
         THEN pc' = "gen" /\ err' = err
         ELSE Exit1
    /\ k' = 1
    /\ UNCHANGED <<script, cli_exists, sizes, runs, fs, outfiles, trial,
                   result, encode_result, decode_result, opj_encode_result,
                   opj_decode_result, all_results, test_images, doc, running,
                   log, writes, console, written>>
    /\ UNCHANGED unitVars

\* lines 325-331 and create_test_image (18-32): one iteration of the image
\* loop, or its end
ProfileCreateImage ==
    /\ script = "profile" /\ pc = "gen"
    /\ IF k <= Len(sizes)
       THEN IF fs[sizes[k]] = Absent
            THEN \E created \in BOOLEAN :
                   IF created
                   THEN /\ fs' = [fs EXCEPT ![sizes[k]] = "gradient"]
                        /\ writes' = [writes EXCEPT ![sizes[k]] = @ + 1]
                        /\ test_images' = Append(test_images,
                               TestPath("test_images", sizes[k], "pgm"))
                        /\ k' = k + 1
                        /\ pc' = pc /\ err' = err
                   ELSE /\ fs' \in {fs, [fs EXCEPT ![sizes[k]] = "partial"]}
                        /\ writes' = [writes EXCEPT ![sizes[k]] = @ + 1]
                        /\ Exit1
                        /\ UNCHANGED <<test_images, k>>
            ELSE /\ test_images' = Append(test_images,
                        TestPath("test_images", sizes[k], "pgm"))
                 /\ k' = k + 1
                 /\ pc' = pc /\ err' = err
                 /\ UNCHANGED <<fs, writes>>
       ELSE /\ k' = 1
            /\ pc' = "bench" /\ err' = err
            /\ UNCHANGED <<fs, writes, test_images>>
    /\ UNCHANGED <<script, cli_exists, sizes, runs, outfiles, trial, result,
                   encode_result, decode_result, opj_encode_result,
                   opj_decode_result, all_results, doc, running, log, console,
                   written>>
    /\ UNCHANGED unitVars

\* lines 339-342, 65-85: the encode-only benchmark of one image starts
ProfileRunStart ==
    /\ script = "profile" /\ pc = "bench" /\ k <= Len(test_images)
    /\ running' = running \cup {Invocation("j2k", k, "encode-only")}
    /\ pc' = "profile_wait"
    /\ UNCHANGED <<script, cli_exists, sizes, runs, fs, outfiles, k, trial,
                   result, encode_result, decode_result, opj_encode_result,
                   opj_decode_result, all_results, test_images, doc, log, err,
                   writes, console, written>>
    /\ UNCHANGED unitVars

\* run_profiling_test, lines 88-100: None on a non-zero exit or an unreadable
\* document, else the document
profiling_result(rc, d) ==
    IF rc # 0 THEN None
    ELSE IF d.kind # "json" THEN None
    ELSE Some(d)

\* lines 343-346: what main appends for one image
profile_appends(res, path) ==
    IF res # None THEN <<analyze_results(res[1], size_of_stem(path))>>
    ELSE <<>>

\* lines 80-100, 343-346: the benchmark returns, main analyses and records
ProfileRunReturn ==
    /\ script = "profile" /\ pc = "profile_wait"
    /\ \E rc \in ExitCodes :
         /\ log' = Append(log,
                          Returned(Invocation("j2k", k, "encode-only"), rc))
         /\ doc' \in IF rc # 0 THEN {doc}
                     ELSE {d \in Docs(size_of_stem(test_images[k]), runs) :
                             d.decode = None}
         /\ all_results' = all_results
               \o profile_appends(profiling_result(rc, doc'), test_images[k])
    /\ running' = running \ {Invocation("j2k", k, "encode-only")}
    /\ k' = k + 1
    /\ pc' = "bench"
    /\ UNCHANGED <<script, cli_exists, sizes, runs, fs, outfiles, trial,
                   result, encode_result, decode_result, opj_encode_result,
                   opj_decode_result, test_images, err, writes, console,
                   written>>
    /\ UNCHANGED unitVars

\* lines 348-357: the report, or "No results collected"
ProfileReport ==
    /\ script = "profile" /\ pc = "bench" /\ k > Len(test_images)
    /\ IF all_results # <<>>
       THEN LET rep == generate_report(all_results)
            IN  IF rep.exc # "none"
                THEN Raised(rep.exc) /\ UNCHANGED <<written, console>>
                ELSE /\ written' = Append(written,
                                       File("profile_report.txt", rep.val))
                     /\ console' = Append(console, rep.val)
                     /\ pc' = "done"
                     /\ err' = err
       ELSE Exit1 /\ UNCHANGED <<written, console>>
    /\ UNCHANGED <<script, cli_exists, sizes, runs, fs, outfiles, k, trial,
                   result, encode_result, decode_result, opj_encode_result,
                   opj_decode_result, all_results, test_images, doc, running,
                   log, writes>>
    /\ UNCHANGED unitVars

NextProfile ==
    \/ ProfileSetup \/ ProfileCreateImage
    \/ ProfileRunStart \/ ProfileRunReturn \/ ProfileReport

-----------------------------------------------------------------------------
(* Initial states *)

InitUnit ==
    /\ arg = None
    /\ call = "none"
    /\ ret = Ok(Zero)

InitMain(s) ==
    /\ script = s
    /\ pc = "start"
    /\ cli_exists \in BOOLEAN
    /\ sizes \in SizeLists
    /\ runs \in (-1)..MaxRuns
    /\ fs \in [SizeValues -> FileContents]
    /\ outfiles = [v \in SizeValues |-> None]
    /\ k = 1
    /\ trial = 0
    /\ result = None
    /\ encode_result = None
    /\ decode_result = None
    /\ opj_encode_result = None
    /\ opj_decode_result = None
    /\ all_results = <<>>
    /\ test_images = <<>>
    /\ doc = MissingDoc
    /\ running = {}
    /\ log = <<>>
    /\ err = "none"
    /\ writes = [v \in SizeValues |-> 0]
    /\ console = <<>>
    /\ written = <<>>

InitCompare == InitMain("compare") /\ InitUnit
InitProfile == InitMain("profile") /\ InitUnit

\* either script, run in a directory left by earlier invocations
Init == InitCompare \/ InitProfile

Next == NextCompare \/ NextProfile

Spec == Init /\ [][Next]_vars

SpecCompare == InitCompare /\ [][NextCompare]_vars

SpecProfile == InitProfile /\ [][NextProfile]_vars

-----------------------------------------------------------------------------
(* Unit checks of the pure functions: the argument is drawn in the initial  *)
(* state and each action applies one function to it                         *)

InitIdle ==
    /\ script = "unit"
    /\ pc = "idle"
    /\ cli_exists = FALSE
    /\ sizes = <<>>
    /\ runs = 0
    /\ fs = [v \in SizeValues |-> Absent]
    /\ outfiles = [v \in SizeValues |-> None]
    /\ k = 1
    /\ trial = 0
    /\ result = None
    /\ encode_result = None
    /\ decode_result = None
    /\ opj_encode_result = None
    /\ opj_decode_result = None
    /\ all_results = <<>>
    /\ test_images = <<>>
    /\ doc = MissingDoc
    /\ running = {}
    /\ log = <<>>
    /\ err = "none"
    /\ writes = [v \in SizeValues |-> 0]
    /\ console = <<>>
    /\ written = <<>>

\* timings in seconds: 0, 10 ms, 20 ms, 30 ms
TimingValues == {Zero, R(10, 1000), R(20, 1000), R(30, 1000)}

MetricSizes == SizeValues \cup {512}

InitMetrics ==
    /\ InitIdle
    /\ arg \in {[BenchmarkResult("J2KSwift", s, "encode") EXCEPT !.times = t] :
                  s \in MetricSizes, t \in SeqsUpTo(TimingValues, MaxTimings)}
    /\ call = "none"
    /\ ret = Ok(Zero)

\* a property read: the value is computed from self.times and nothing is
\* stored
Read(name, value) ==
    /\ call' = name
    /\ ret' = value
    /\ arg' = arg
    /\ UNCHANGED mainVars

ReadAverage == Read("average", average(arg))
ReadMedian == Read("median", median(arg))
ReadStdDev == Read("std_dev", std_dev(arg))
ReadMinTime == Read("min_time", min_time(arg))
ReadMaxTime == Read("max_time", max_time(arg))
ReadThroughput == Read("throughput", throughput(arg))

NextMetrics ==
    \/ ReadAverage \/ ReadMedian \/ ReadStdDev
    \/ ReadMinTime \/ ReadMaxTime \/ ReadThroughput

SpecMetrics == InitMetrics /\ [][NextMetrics]_vars

\* avg_time_ms values around the band edges for a pixel ratio of 4 and a first
\* average of 100 ms
ScalingAvgMs == {0, 100, 359, 360, 361, 439, 440, 441, 599, 600, 601, 700}

Analysis(size, ms) ==
    [image_size |-> size, pixels |-> size * size, avg_time_ms |-> RInt(ms),
     throughput_mpps |-> RInt(1), compressed_size_bytes |-> 5,
     compression_ratio |-> R(size * size, 5), times_ms |-> <<ms>>]

InitScaling ==
    /\ InitIdle
    /\ arg \in {<<Analysis(s1, m1), Analysis(s2, m2)>> :
                  s1 \in SizeValues, s2 \in SizeValues,
                  m1 \in ScalingAvgMs, m2 \in ScalingAvgMs}
    /\ call = "none"
    /\ ret = Ok(Zero)

ApplyGenerateReport ==
    /\ call = "none"
    /\ call' = "generate_report"
    /\ ret' = generate_report(arg)
    /\ arg' = arg
    /\ UNCHANGED mainVars

SpecScaling == InitScaling /\ [][ApplyGenerateReport]_vars

MaxRows == 2        \* longest result list rendered in the unit check

\* results with no, one and two timings, and with the compressed size
\* absent, zero and positive
CsvTimings == {<<>>, <<R(1, 3)>>, <<R(1, 100), R(3, 100)>>}

CsvSizes == {None, Some(0), Some(5)}

CsvResults ==
    {[BenchmarkResult(io[1], s, io[2]) EXCEPT !.times = t,
                                              !.compressed_size = c] :
        io \in {<<"J2KSwift", "encode">>, <<"OpenJPEG", "decode">>},
        s \in {1, 512}, t \in CsvTimings, c \in CsvSizes}

InitCsv ==
    /\ InitIdle
    /\ arg \in SeqsUpTo(CsvResults, MaxRows)
    /\ call = "none"
    /\ ret = Ok(<<>>)

ApplyGenerateCsv ==
    /\ call = "none"
    /\ call' = "generate_csv_report"
    /\ ret' = Ok(generate_csv_report(arg))
    /\ arg' = arg
    /\ UNCHANGED mainVars

SpecCsv == InitCsv /\ [][ApplyGenerateCsv]_vars

-----------------------------------------------------------------------------
(* Properties of the candidate adapter and of the size sweep               *)
(* (compare_performance.py, checked under SpecCompare)                      *)

\* the returned invocations of one tool family for the size at index i
LogOf(i, tools) == SelectSeq(log, LAMBDA e : e.k = i /\ e.tool \in tools)

StartedFor(i, tools) == {e \in running : e.k = i /\ e.tool \in tools}

RecordedFor(impl, op) ==
    Cardinality({j \in 1..Len(all_results) :
                   /\ all_results[j].implementation = impl
                   /\ all_results[j].operation = op})

C1_OneSize(i) ==
    LET js == LogOf(i, {"j2k"})
        started == StartedFor(i, {"j2k"})
    IN  /\ Len(js) + Cardinality(started) <= 2
        /\ Len(js) >= 1 => js[1].flags = "benchmark"
        /\ Len(js) = 0 =>
             \A e \in started : e.flags = "benchmark"
        \* a second invocation is made only after a failed combined one, and
        \* carries the encode-only flag
        /\ Len(js) = 1 =>
             /\ \A e \in started : e.flags = "encode-only" /\ js[1].rc # 0
             /\ js[1].rc # 0 =>
                  /\ k = i
                  /\ \/ pc = "j2k_retry" /\ started = {}
                     \/ pc = "j2k_retry_wait" /\ started # {}
             /\ js[1].rc = 0 => pc \notin {"j2k_retry", "j2k_retry_wait"} \/ k # i
        /\ Len(js) = 2 =>
             /\ js[1].rc # 0
             /\ js[2].flags = "encode-only"
             \* a failed retry is fatal and the document is not read
             /\ js[2].rc # 0 =>
                  /\ pc = "raised" /\ err = "RuntimeError" /\ k = i
                  /\ RecordedFor("J2KSwift", "encode") = i - 1

\* C1: per size the combined candidate invocation is made once; exactly when
\* it exits non-zero one further invocation is made, with the encode-only
\* flag; when that one fails too a RuntimeError leaves main and the document
\* is not read.  At most two candidate invocations per size, none after a
\* successful combined one.
C1_RetryOnce == \A i \in 1..Len(sizes) : C1_OneSize(i)

\* C1 witness: both candidate invocations of a size failed
C1_Witness ==
    /\ script = "compare" /\ pc = "raised" /\ err = "RuntimeError"
    /\ Len(LogOf(k, {"j2k"})) = 2
    /\ LogOf(k, {"j2k"})[2].rc # 0

Phase(tool) ==
    CASE tool = "j2k" -> 1
      [] tool = "opj_compress" -> 2
      [] tool = "opj_decompress" -> 3

Succeeded(i, tool) ==
    Len(SelectSeq(LogOf(i, {tool}), LAMBDA e : e.rc = 0))

\* len(range(runs)): the trials of one loop of a reference adapter
TrialCount == IF runs > 0 THEN runs ELSE 0

\* what must have returned before an invocation of `tool` for size index i
\* may start
PredecessorsDone(i, tool) ==
    /\ \A j \in 1..(i - 1) :
         /\ Succeeded(j, "j2k") = 1
         /\ Succeeded(j, "opj_compress") = TrialCount
         /\ Succeeded(j, "opj_decompress") = TrialCount
    /\ tool \in {"opj_compress", "opj_decompress"} => Succeeded(i, "j2k") = 1
    /\ tool = "opj_decompress" => Succeeded(i, "opj_compress") = TrialCount

\* C3: external invocations never overlap; sizes are processed in the order
\* given; within a size the candidate benchmark, then all reference encode
\* trials, then all reference decode trials; nothing of a size starts before
\* every benchmark of the sizes before it has returned.
C3_Sequential ==
    /\ Cardinality(running) <= 1
    \* the returned invocations are in (size, phase) order: the order is
    \* transitive, so consecutive entries decide it
    /\ \A a \in 1..(Len(log) - 1) :
         \/ log[a].k < log[a + 1].k
         \/ /\ log[a].k = log[a + 1].k
            /\ Phase(log[a].tool) <= Phase(log[a + 1].tool)
    \* an invocation in progress started after all its predecessors returned
    \* and after everything that has returned so far
    /\ \A e \in running :
         /\ PredecessorsDone(e.k, e.tool)
         /\ Len(log) > 0 =>
              \/ log[Len(log)].k < e.k
              \/ /\ log[Len(log)].k = e.k
                 /\ Phase(log[Len(log)].tool) <= Phase(e.tool)

\* C3 witness: a decode trial of the second size is running after two full
\* trial loops of the first
C3_Witness ==
    /\ script = "compare" /\ runs = 2 /\ k = 2
    /\ pc = "opj_decode_wait" /\ trial = 1
    /\ Cardinality(running) = 1

IsReference(e) == e.tool \in {"opj_compress", "opj_decompress"}

\* C4: a non-zero exit of a reference command at any trial ends the run: its
\* duration is not appended, no invocation follows it, the result in
\* progress is not recorded, no report is written and CalledProcessError
\* leaves main.
C4_ReferenceFailureFatal ==
    \A a \in 1..Len(log) :
      (IsReference(log[a]) /\ log[a].rc # 0) =>
        /\ a = Len(log)
        /\ running = {}
        /\ pc = "raised" /\ err = "CalledProcessError"
        /\ k = log[a].k /\ trial = log[a].flags
        /\ Len(result[1].times) = trial
        /\ RecordedFor("OpenJPEG", "decode") = k - 1
        /\ RecordedFor("OpenJPEG", "encode") =
             IF log[a].tool = "opj_compress" THEN k - 1 ELSE k
        /\ written = <<>>

\* C4 witness: the second encode trial of the first of two sizes failed
C4_Witness ==
    /\ script = "compare" /\ pc = "raised" /\ err = "CalledProcessError"
    /\ Len(sizes) = 2 /\ k = 1 /\ trial = 1
    /\ log[Len(log)].tool = "opj_compress"

\* the absent-decode case: the candidate benchmark of the size in progress
\* returned, its encode result is recorded and there is no decode result
DecodeAbsent ==
    /\ script = "compare"
    /\ pc \in {"opj_encode", "opj_encode_wait", "opj_decode",
               "opj_decode_wait", "compare", "raised"}
    /\ k <= Len(sizes)
    /\ RecordedFor("J2KSwift", "encode") = k
    /\ decode_result = None

\* C2: with the decode section absent the adapter returns (encode, None)
\* without raising, main records the encode result alone, runs the reference
\* encode and decode benchmarks of that size and goes on to the later sizes:
\* nothing but a failing reference command stops the sweep in that case.
C2_AbsentDecodeContinues ==
    /\ (pc = "j2k_append" /\ doc.kind = "json" /\ doc.decode = None) =>
          decode_result = None
    /\ DecodeAbsent => RecordedFor("J2KSwift", "decode") <= k - 1
    /\ (DecodeAbsent /\ pc = "raised") => err = "CalledProcessError"

\* C6: the relative speed is computed only when both results exist and the
\* candidate's average is above 0; otherwise nothing is divided and nothing
\* is raised, so ZeroDivisionError never leaves main.
C6_NoDivisionByZero == ~(pc = "raised" /\ err = "ZeroDivisionError")

-----------------------------------------------------------------------------
(* Corpus generation, both scripts (checked under Spec) *)

\* C5: a test image that exists is never written again, by either script:
\* its bytes stay and the invocation does not count a write for it.
C5_ExistingImageKept ==
    [][\A s \in SizeValues :
         fs[s] # Absent => fs'[s] = fs[s] /\ writes'[s] = writes[s]]_vars

\* C5 witness: a size listed twice was generated once and then skipped, and
\* the image loop is over
C5_Witness ==
    /\ Len(sizes) = 2 /\ sizes[1] = sizes[2]
    /\ pc = "bench"
    /\ writes[sizes[1]] = 1
    /\ fs[sizes[1]] \in {"random", "gradient"}

-----------------------------------------------------------------------------
(* Scalability analysis of profile_encoder.py *)

\* the band of the factor num/den, den > 0, from the four intervals
\* [0, 0.9), [0.9, 1.1), [1.1, 1.5), [1.5, inf) by cross-multiplication
BandOf(num, den) ==
    CASE 10 * num < 9 * den -> "Super-linear scaling"
      [] 9 * den <= 10 * num /\ 10 * num < 11 * den -> "Linear scaling"
      [] 11 * den <= 10 * num /\ 2 * num < 3 * den -> "Sub-linear scaling"
      [] 3 * den <= 2 * num -> "Poor scaling"

\* C7: every scaling factor >= 0 falls in exactly one of the four bands, the
\* lower edge of a band belonging to it: 0.9 is linear, 1.1 (pixel ratio 4,
\* time ratio 4.4) sub-linear, 1.5 poor.  Checked under SpecScaling, where
\* the factor is (arg[2].avg / arg[1].avg) / (arg[2].pixels / arg[1].pixels).
C7_Bands ==
    (/\ call = "generate_report"
     /\ ret.exc = "none"
     /\ ret.val.scalability # None) =>
        ret.val.scalability[1].band =
            BandOf(arg[2].avg_time_ms[1] * arg[1].pixels,
                   arg[1].avg_time_ms[1] * arg[2].pixels)

\* C7 witness: 256 -> 512 with the time growing 4.4-fold is reported as
\* sub-linear
C7_Witness ==
    /\ call = "generate_report"
    /\ arg[1].pixels = 1 /\ arg[2].pixels = 4
    /\ arg[1].avg_time_ms = RInt(100) /\ arg[2].avg_time_ms = RInt(440)
    /\ ret.exc = "none"
    /\ ret.val.scalability[1].scaling_factor = R(11, 10)
    /\ ret.val.scalability[1].band = "Sub-linear scaling"

ResultSizes == {all_results[j].image_size : j \in
                  {i \in 1..Len(all_results) :
                     "image_size" \in DOMAIN all_results[i]}}

ReportWritten == script = "profile" /\ pc = "done"

\* the analysis the written report holds, None when it was skipped
ReportedScalability == console[1].scalability

\* C8: the analysis compares the smallest size present (first) with the
\* largest (last), whatever the order of --sizes, so pixel_ratio >= 1.
\* Checked under SpecProfile.
C8_SmallestToLargest ==
    (ReportWritten /\ ReportedScalability # None) =>
        /\ \A s \in ResultSizes : ReportedScalability[1].first <= s
        /\ \A s \in ResultSizes : s <= ReportedScalability[1].last
        /\ RLe(RInt(1), ReportedScalability[1].pixel_ratio)

\* C9: the analysis is in the report exactly when results of at least two
\* distinct image sizes were collected; with fewer it is skipped and the
\* report is still written.  Checked under SpecProfile.
C9_TwoDistinctSizes ==
    ReportWritten =>
        (ReportedScalability # None <=> Cardinality(ResultSizes) >= 2)

-----------------------------------------------------------------------------
(* Derived metrics of BenchmarkResult (checked under SpecMetrics) *)

C10_Values ==
    call # "none" =>
      /\ ret.exc = "none"
      /\ arg.times = <<>> => ret.val = Zero
      /\ (call = "std_dev" /\ Len(arg.times) = 1) => ret.val = Zero
      /\ call = "throughput" =>
           IF RSum(arg.times) = Zero THEN ret.val = Zero
           ELSE RMul(ret.val, RSum(arg.times)) =
                  R(arg.image_size * arg.image_size * Len(arg.times), 1000000)

\* C10: every derived metric is total: no read raises; on an empty timing
\* list every metric is 0; the standard deviation of a single timing is 0;
\* throughput is 0 when the average is 0 and (image_size^2 / 1,000,000) /
\* average otherwise; a read leaves the timings alone and a repeated read
\* returns the same value.
C10_MetricsTotal ==
    /\ []C10_Values
    /\ [][arg' = arg /\ (call' = call => ret' = ret)]_vars

\* C10 witness: throughput read on an empty timing list
C10_Witness ==
    /\ call = "throughput"
    /\ arg.times = <<>>
    /\ ret = Ok(Zero)

-----------------------------------------------------------------------------
(* Reports of compare_performance.py (checked under SpecCompare) *)

MarkdownWritten == script = "compare" /\ pc \in {"report_csv", "done"}

Markdown == written[1].content

\* the sizes of the sweep for which no candidate decode result was recorded
SizesWithoutDecode ==
    {sizes[i] : i \in 1..Len(sizes)} \
    {all_results[j].image_size : j \in
       {n \in 1..Len(all_results) :
          /\ all_results[n].implementation = "J2KSwift"
          /\ all_results[n].operation = "decode"}}

HasEncodeRow(size) ==
    \E j \in 1..Len(Markdown.encode_rows) :
      /\ Markdown.encode_rows[j].image_size = size
      /\ Markdown.encode_rows[j].implementation = "J2KSwift"

C11_RenderingCompletes ==
    ~(script = "compare" /\ pc = "raised" /\ k > Len(sizes)
      /\ SizesWithoutDecode # {})

C11_EncodeRowsRendered ==
    (MarkdownWritten /\ SizesWithoutDecode # {}) =>
        \A size \in SizesWithoutDecode : HasEncodeRow(size)

C11_UnavailableStated ==
    (MarkdownWritten /\ SizesWithoutDecode # {}) =>
        Markdown.summary.decode = None

\* C11: when the candidate decode result is absent for at least one size of
\* the sweep, the reports are rendered without error, the encode rows of that
\* size are in the markdown report, and its summary states that decode was
\* unavailable instead of giving a decode figure.
C11_AbsentDecodeReported ==
    /\ C11_RenderingCompletes
    /\ C11_EncodeRowsRendered
    /\ C11_UnavailableStated

Triple(r) == <<r.implementation, r.image_size, r.operation>>

ResultsOf(implementation, size, operation) ==
    {j \in 1..Len(all_results) :
       Triple(all_results[j]) = <<implementation, size, operation>>}

\* C12: the accumulated result list never holds two results of the same
\* (implementation, image_size, operation), whatever the size list (a size
\* may be repeated), and when the sweep is over it holds exactly one for
\* every triple measured.
C12_OneResultPerTriple ==
    script = "compare" =>
      /\ \A i, j \in 1..Len(all_results) :
           i < j => Triple(all_results[i]) # Triple(all_results[j])
      /\ pc = "done" =>
           \A n \in 1..Len(sizes) :
             /\ Cardinality(ResultsOf("J2KSwift", sizes[n], "encode")) = 1
             /\ Cardinality(ResultsOf("OpenJPEG", sizes[n], "encode")) = 1
             /\ Cardinality(ResultsOf("OpenJPEG", sizes[n], "decode")) = 1
             /\ Cardinality(ResultsOf("J2KSwift", sizes[n], "decode")) <= 1

-----------------------------------------------------------------------------
(* CSV export (checked under SpecCsv): a reader of the exported text *)

IndexOf(text, sep) ==
    IF \E i \in 1..Len(text) : text[i] = sep
    THEN CHOOSE i \in 1..Len(text) :
           text[i] = sep /\ \A j \in 1..(i - 1) : text[j] # sep
    ELSE 0

RECURSIVE Split(_, _)
Split(text, sep) ==
    IF IndexOf(text, sep) = 0 THEN <<text>>
    ELSE <<SubSeq(text, 1, IndexOf(text, sep) - 1)>>
         \o Split(SubSeq(text, IndexOf(text, sep) + 1, Len(text)), sep)

DigitValue(c) == CHOOSE d \in 0..9 : Digits[d + 1] = c

RECURSIVE ParseNat(_)
ParseNat(text) ==
    IF text = <<>> THEN 0
    ELSE 10 * ParseNat(SubSeq(text, 1, Len(text) - 1))
         + DigitValue(text[Len(text)])

ParseInt(text) ==
    IF text # <<>> /\ Head(text) = "-" THEN -ParseNat(Tail(text))
    ELSE ParseNat(text)

\* the number a decimal text with three decimals denotes
ParseDecimal(text) ==
    R(ParseInt(SelectSeq(text, LAMBDA c : c # ".")), 1000)

ParseRow(fields) ==
    [image_size |-> ParseInt(fields[1]),
     implementation |-> fields[2][1],
     operation |-> fields[3][1],
     average_ms |-> ParseDecimal(fields[4]),
     median_ms |-> ParseDecimal(fields[5]),
     min_ms |-> ParseDecimal(fields[6]),
     max_ms |-> ParseDecimal(fields[7]),
     std_dev_ms |-> ParseDecimal(fields[8]),
     throughput |-> ParseDecimal(fields[9]),
     compressed_size |-> IF fields[10] = <<>> THEN None
                         ELSE Some(ParseInt(fields[10]))]

\* the rows after the header line
ParseCsv(text) ==
    [i \in 1..(Len(Split(text, "\n")) - 1) |->
       ParseRow(Split(Split(text, "\n")[i + 1], ","))]

\* x to three decimal places
ToThreeDecimals(parsed, x) ==
    /\ RLe(RSub(x, R(1, 2000)), parsed)
    /\ RLe(parsed, RAdd(x, R(1, 2000)))

Milliseconds(x) == RMul(x, RInt(1000))

C13_SameShape ==
    call = "generate_csv_report" =>
      /\ Len(ParseCsv(ret.val)) = Len(arg)
      /\ \A i \in 1..Len(arg) :
           /\ ParseCsv(ret.val)[i].image_size = arg[i].image_size
           /\ ParseCsv(ret.val)[i].implementation = arg[i].implementation
           /\ ParseCsv(ret.val)[i].operation = arg[i].operation

C13_SameMetrics ==
    call = "generate_csv_report" =>
      \A i \in 1..Len(arg) :
        /\ ToThreeDecimals(ParseCsv(ret.val)[i].average_ms,
                           Milliseconds(average(arg[i]).val))
        /\ ToThreeDecimals(ParseCsv(ret.val)[i].median_ms,
                           Milliseconds(median(arg[i]).val))
        /\ ToThreeDecimals(ParseCsv(ret.val)[i].min_ms,
                           Milliseconds(min_time(arg[i]).val))
        /\ ToThreeDecimals(ParseCsv(ret.val)[i].max_ms,
                           Milliseconds(max_time(arg[i]).val))
        /\ ToThreeDecimals(ParseCsv(ret.val)[i].std_dev_ms,
                           Milliseconds(std_dev(arg[i]).val))
        /\ ToThreeDecimals(ParseCsv(ret.val)[i].throughput,
                           throughput(arg[i]).val)

C13_SameCompressedSize ==
    call = "generate_csv_report" =>
      \A i \in 1..Len(arg) :
        ParseCsv(ret.val)[i].compressed_size = arg[i].compressed_size

\* C13: the exported CSV read back gives one row per result in the same
\* order, with the same image size, implementation and operation, every
\* time metric to three decimal places, and the compressed size as the same
\* byte count when there is one (0 included) and empty only when absent.
C13_CsvRoundTrip ==
    /\ C13_SameShape
    /\ C13_SameMetrics
    /\ C13_SameCompressedSize

-----------------------------------------------------------------------------
(* The candidate's result document, both scripts (checked under Spec) *)

\* missing, malformed, or without image.width, the encode section or its runs
BrokenDocument(d) ==
    \/ d.kind # "json"
    \/ d.image = None
    \/ d.image[1].width = None
    \/ d.encode = None
    \/ d.encode[1].runs = None

LastReturn == log[Len(log)]

\* the candidate tool exited 0 and the script has read its document
DocumentRead ==
    /\ Len(log) > 0
    /\ LastReturn.tool = "j2k"
    /\ LastReturn.rc = 0
    /\ pc # "j2k_parse"

CandidateResultsRecorded ==
    IF script = "compare" THEN RecordedFor("J2KSwift", "encode")
    ELSE Len(all_results)

\* C14: a candidate result document that is missing, malformed or lacks a
\* required field ends the run with an error: no candidate result is recorded
\* for that size, no later size is benchmarked and no report is written, in
\* the comparison script and in the profiling script.
C14_BrokenDocumentFatal ==
    (DocumentRead /\ BrokenDocument(doc)) =>
        /\ script = "compare" => pc = "raised"
        /\ pc # "done"
        /\ running = {}
        /\ CandidateResultsRecorded < LastReturn.k
        /\ written = <<>>

-----------------------------------------------------------------------------
(* Reference adapters of compare_performance.py (checked under SpecCompare) *)

InEncodeAdapter ==
    script = "compare" /\ pc \in {"opj_encode", "opj_encode_wait"}

InDecodeAdapter ==
    script = "compare" /\ pc \in {"opj_decode", "opj_decode_wait"}

AdapterTool == IF InEncodeAdapter THEN "opj_compress" ELSE "opj_decompress"

\* inside an adapter the list holds one timing per trial that returned 0, and
\* the compressed size has not been read
C15_OnePerTrial ==
    (InEncodeAdapter \/ InDecodeAdapter) =>
        /\ Len(result[1].times) = Succeeded(k, AdapterTool)
        /\ Len(result[1].times) = trial
        /\ trial <= TrialCount
        /\ result[1].compressed_size = None

\* a step inside one adapter leaves the list alone or adds one entry at its
\* end
C15_AppendOnly ==
    (\/ InEncodeAdapter /\ InEncodeAdapter'
     \/ InDecodeAdapter /\ InDecodeAdapter')
    => \/ result'[1].times = result[1].times
       \/ /\ Len(result'[1].times) = Len(result[1].times) + 1
          /\ SubSeq(result'[1].times, 1, Len(result[1].times)) =
               result[1].times

\* the encode adapter returns: `runs` timings (none when runs <= 0) and the
\* byte count of the artifact as it is then, None when there is no artifact
C15_EncodeReturn ==
    (InEncodeAdapter /\ pc' = "opj_decode") =>
        /\ opj_encode_result'[1].times = result[1].times
        /\ Len(opj_encode_result'[1].times) = TrialCount
        /\ opj_encode_result'[1].compressed_size = outfiles[CurrentSize]
        /\ outfiles' = outfiles

C15_DecodeReturn ==
    (InDecodeAdapter /\ pc' = "compare") =>
        /\ opj_decode_result'[1].times = result[1].times
        /\ Len(opj_decode_result'[1].times) = TrialCount
        /\ opj_decode_result'[1].compressed_size = None

\* C15: in the reference adapters the timing list is append-only with one
\* entry per completed trial: after n successful invocations it has length n
\* and its earlier entries are unchanged; on normal return it has length
\* runs (0 when runs <= 0); the compressed size is read once, after the
\* loop, from the encode artifact, and is absent when there is no artifact.
C15_TimingsAppendOnly ==
    /\ []C15_OnePerTrial
    /\ [][C15_AppendOnly /\ C15_EncodeReturn /\ C15_DecodeReturn]_vars

\* C15 witness: the encode adapter returned after two trials with the size
\* of the artifact, and the decode adapter has completed its first trial
C15_Witness ==
    /\ script = "compare" /\ pc = "opj_decode" /\ runs = 2 /\ trial = 1
    /\ Len(opj_encode_result[1].times) = 2
    /\ opj_encode_result[1].compressed_size = outfiles[CurrentSize]
    /\ outfiles[CurrentSize] # None
    /\ Len(result[1].times) = 1

====
